---- MODULE Spec2Model ----
(***************************************************************************)
(* Model of generate_pjm_dashboard.py: load_data, season_of_month and the  *)
(* aggregation part of build_dashboard, with the pandas calls modelled by  *)
(* what they compute on a small table.                                     *)
(*                                                                         *)
(* Representation.                                                         *)
(*  - A timestamp is the number of hours since 2021-01-01 00:00.           *)
(*  - A cell is <<>> (NaN, no value) or <<p>> (the price p).  Every        *)
(*    statistic is a cell too: <<>> is NaN, <<r>> a value.                  *)
(*  - Prices are integers; a mean, median or quantile is an exact rational *)
(*    [num, den] in lowest terms with den > 0.                             *)
(*  - A standard deviation is carried as its square (the sample variance), *)
(*    which is rational; it is zero or NaN exactly when the deviation is.  *)
(*  - A correlation r is carried as [sgn, sq] with sgn its sign and sq the *)
(*    rational r^2, which determines r.                                    *)
(***************************************************************************)
EXTENDS Integers, Sequences, FiniteSets, TLC

\* ---------------------------------------------------------------- bounds
MaxCells == 4
MaxPrice == 1
MaxWideRows == 3
MaxRollRows == 26
MaxGaps == 1

\* ------------------------------------------------------- generic helpers
NaN == <<>>

Val(c) == c[1]

IsNaN(c) == c = <<>>

Range(s) == {s[i] : i \in 1..Len(s)}

IndexOf(s, x) == CHOOSE i \in 1..Len(s) : s[i] = x

Min2(a, b) == IF a <= b THEN a ELSE b

Max2(a, b) == IF a >= b THEN a ELSE b

Abs(a) == IF a < 0 THEN 0 - a ELSE a

RECURSIVE GCD(_, _)
GCD(a, b) == IF b = 0 THEN a ELSE GCD(b, a % b)

\* the rational n/d (d # 0) in lowest terms, denominator positive
Rat(n, d) ==
    LET g == GCD(Abs(n), Abs(d))
        s == IF d < 0 THEN 0 - 1 ELSE 1
    IN  [num |-> (s * n) \div g, den |-> (s * d) \div g]

RatLess(a, b) == a.num * b.den < b.num * a.den

RatAdd(a, b) == Rat(a.num * b.den + b.num * a.den, a.den * b.den)

RatMul(a, b) == Rat(a.num * b.num, a.den * b.den)

\* s[lo] + ... + s[hi], by halves
RECURSIVE SumRange(_, _, _)
SumRange(s, lo, hi) ==
    IF lo > hi THEN 0
    ELSE IF lo = hi THEN s[lo]
    ELSE LET mid == (lo + hi) \div 2
         IN  SumRange(s, lo, mid) + SumRange(s, mid + 1, hi)

SumSeq(s) == SumRange(s, 1, Len(s))

SumSq(s) == SumRange([i \in 1..Len(s) |-> s[i] * s[i]], 1, Len(s))

\* the same for a sequence of rationals
RECURSIVE RatSumRange(_, _, _)
RatSumRange(s, lo, hi) ==
    IF lo > hi THEN Rat(0, 1)
    ELSE IF lo = hi THEN s[lo]
    ELSE LET mid == (lo + hi) \div 2
         IN  RatAdd(RatSumRange(s, lo, mid), RatSumRange(s, mid + 1, hi))

\* the values of the non-NaN cells of a sequence of cells (skipna)
DropNa(cells) ==
    LET kept == SelectSeq(cells, LAMBDA c : ~IsNaN(c))
    IN  [i \in 1..Len(kept) |-> Val(kept[i])]

\* integers in ascending order (a sort of values, where ties are equal values)
RECURSIVE SortInts(_)
SortInts(s) ==
    IF s = <<>> THEN <<>>
    ELSE LET m == CHOOSE i \in 1..Len(s) : \A j \in 1..Len(s) : s[i] <= s[j]
         IN  <<s[m]>> \o SortInts([i \in 1..(Len(s) - 1) |-> IF i < m THEN s[i] ELSE s[i + 1]])

\* ------------------------------------------------------ pandas statistics
\* Series.mean(): NaN for no values
SeriesMean(vals) ==
    IF vals = <<>> THEN NaN ELSE <<Rat(SumSeq(vals), Len(vals))>>

\* Series.min() / Series.max()
SeriesMin(vals) ==
    IF vals = <<>> THEN NaN
    ELSE <<CHOOSE v \in Range(vals) : \A w \in Range(vals) : v <= w>>

SeriesMax(vals) ==
    IF vals = <<>> THEN NaN
    ELSE <<CHOOSE v \in Range(vals) : \A w \in Range(vals) : v >= w>>

\* Series.quantile(p/q): linear interpolation between order statistics
SeriesQuantile(vals, p, q) ==
    IF vals = <<>> THEN NaN
    ELSE LET s == SortInts(vals)
             n == Len(s)
             pos == (n - 1) * p          \* position times q
             lo == pos \div q
             fr == pos % q
             hi == IF fr = 0 THEN lo ELSE lo + 1
         IN  <<Rat(s[lo + 1] * q + fr * (s[hi + 1] - s[lo + 1]), q)>>

\* Series.median()
SeriesMedian(vals) == SeriesQuantile(vals, 1, 2)

\* Series.std(): sample (N-1) convention, NaN below two values; carried squared
SeriesStd(vals) ==
    LET n == Len(vals)
    IN  IF n < 2 THEN NaN
        ELSE <<Rat(n * SumSq(vals) - SumSeq(vals) * SumSeq(vals), n * (n - 1))>>

\* --------------------------------------------------------------- calendar
IsLeap(y) == (y % 4 = 0 /\ y % 100 # 0) \/ y % 400 = 0

DaysInYear(y) == IF IsLeap(y) THEN 366 ELSE 365

DaysInMonth(y, m) ==
    IF m = 2 THEN (IF IsLeap(y) THEN 29 ELSE 28)
    ELSE IF m \in {4, 6, 9, 11} THEN 30 ELSE 31

RECURSIVE YearAndDay(_, _)
YearAndDay(d, y) ==
    IF d < DaysInYear(y) THEN <<y, d>> ELSE YearAndDay(d - DaysInYear(y), y + 1)

RECURSIVE MonthFrom(_, _, _)
MonthFrom(d, y, m) ==
    IF d < DaysInMonth(y, m) THEN m ELSE MonthFrom(d - DaysInMonth(y, m), y, m + 1)

\* Series.dt.year, .dt.month, .dt.hour, .dt.day_name()
dt_year(t) == YearAndDay(t \div 24, 2021)[1]

dt_month(t) ==
    LET yd == YearAndDay(t \div 24, 2021) IN MonthFrom(yd[2], yd[1], 1)

dt_hour(t) == t % 24

DayNames ==
    <<"Monday", "Tuesday", "Wednesday", "Thursday", "Friday", "Saturday", "Sunday">>

\* 2021-01-01 was a Friday
day_name(t) == DayNames[(((t \div 24) + 4) % 7) + 1]

\* --------------------------------------------------------------- the input
\* zone names, in alphabetical order (the order a group-by on Zone sorts them)
ZoneNames == <<"AEP", "BGE", "DOM">>

\* 2021-01-01 05:00 (Friday, winter), 2021-03-01 13:00 (Monday, spring),
\* 2021-07-04 05:00 (Sunday, summer), 2021-12-03 23:00 (Friday, winter),
\* 2024-10-01 13:00 (Tuesday, autumn of a leap year)
Times == <<5, 1429, 4421, 8087, 32869>>

Prices == 0..MaxPrice

Cells == {NaN} \cup {<<p>> : p \in Prices}

InjSeqs(S, n) == {s \in [1..n -> S] : \A i, j \in 1..n : i # j => s[i] # s[j]}

\* the column orders of the first n zone names
ZoneOrders(n) == InjSeqs({ZoneNames[k] : k \in 1..n}, n)

\* n timestamps in file order: ascending or descending
TimeOrders(n) ==
    LET asc == {s \in [1..n -> 1..Len(Times)] : \A i \in 1..(n - 1) : s[i] < s[i + 1]}
    IN  {[i \in 1..n |-> Times[s[i]]] : s \in asc}
        \cup {[i \in 1..n |-> Times[s[n + 1 - i]]] : s \in asc}

\* the table shapes (rows, zones) of at most MaxCells cells
Shapes ==
    {<<r, z>> \in (1..Len(Times)) \X (1..Len(ZoneNames)) : r * z <= MaxCells}

\* a sheet with a "Date" column first, its rows in file order
DatedSheets ==
    {[columns |-> <<"Date">> \o x[1],
      rows |-> [i \in 1..Len(x[2]) |->
                  [c \in {"Date"} \cup Range(x[1]) |->
                      IF c = "Date" THEN <<x[2][i]>> ELSE x[3][i][c]]]] :
        x \in UNION {{<<zs, ts, cs>> : cs \in [1..Len(ts) -> [Range(zs) -> Cells]]} :
                        <<zs, ts>> \in UNION {ZoneOrders(sh[2]) \X TimeOrders(sh[1]) :
                                                 sh \in Shapes}}}

\* a sheet that has only price columns
UndatedSheets ==
    {[columns |-> x[1], rows |-> x[2]] :
        x \in UNION {{<<zs, cs>> : cs \in [1..sh[1] -> [Range(zs) -> Cells]]} :
                        <<zs, sh>> \in UNION {ZoneOrders(sh[2]) \X {sh} : sh \in Shapes}}}

Sheets == DatedSheets \cup UndatedSheets

\* ------------------------------------------------------------------ state
VARIABLES
    pc,            \* "start", "loaded", "done", "failed" or "crashed"
    sheet,         \* the sheet pd.read_excel returns
    args,          \* parse_args' result: the --output and --assets-dir paths
    df,            \* load_data's result
    error,         \* the exception that ended the run, or "none"
    assets_dir,    \* whether the asset directory exists
    written,       \* the paths of the files written, in the order of writing
    links,         \* the href of each CSV link of the written document
    stacked,       \* the long form
    monthly,
    zone_summary,
    roll,
    spread,
    hod,
    dow,
    seasonal,
    corr,
    idxmax,
    idxmin

vars ==
    <<pc, sheet, args, df, error, assets_dir, written, links, stacked, monthly,
      zone_summary, roll, spread, hod, dow, seasonal, corr, idxmax, idxmin>>

outputs ==
    <<assets_dir, written, links, stacked, monthly, zone_summary, roll, spread, hod,
      dow, seasonal, corr, idxmax, idxmin>>

\* --------------------------------------------------------------- load_data
\* rows in ascending Date order (the timestamps of a sheet are distinct)
RECURSIVE SortByDate(_)
SortByDate(rows) ==
    IF Len(rows) <= 1 THEN rows
    ELSE LET p == Val(rows[(Len(rows) + 1) \div 2]["Date"])
         IN  SortByDate(SelectSeq(rows, LAMBDA r : Val(r["Date"]) < p))
             \o SelectSeq(rows, LAMBDA r : Val(r["Date"]) = p)
             \o SortByDate(SelectSeq(rows, LAMBDA r : Val(r["Date"]) > p))

HasDate(sh) == "Date" \in Range(sh.columns)

load_data(sh) == [columns |-> sh.columns, rows |-> SortByDate(sh.rows)]

\* load_data without its check of the "Date" column
LoadData_Unchecked ==
    /\ pc = "start"
    /\ df' = [columns |-> sheet.columns, rows |-> sheet.rows]
    /\ pc' = "loaded"
    /\ UNCHANGED <<sheet, args, error, outputs>>

LoadData ==
    /\ pc = "start"
    /\ IF HasDate(sheet)
       THEN /\ df' = load_data(sheet)
            /\ pc' = "loaded"
            /\ UNCHANGED error
       ELSE /\ error' = "ValueError"
            /\ pc' = "failed"
            /\ UNCHANGED df
    /\ UNCHANGED <<sheet, args, outputs>>

\* ------------------------------------------------- sort_values, group-by
\* The orders a sort may leave `idx` in, as sequences of indices, where
\* before[i][j] says that i's key is strictly ahead of j's.  sort_values is
\* called with its default kind, quicksort, which is not stable: records
\* with equal keys may come out in any order.
RECURSIVE Arrange(_, _)
Arrange(idx, before) ==
    IF idx = {} THEN {<<>>}
    ELSE UNION {{<<i>> \o r : r \in Arrange(idx \ {i}, before)} :
                   i \in {i \in idx : \A j \in idx : ~before[j][i]}}

Permute(s, p) == [k \in 1..Len(s) |-> s[p[k]]]

\* DataFrame.head(k)
HeadK(s, k) == SubSeq(s, 1, Min2(k, Len(s)))

\* the Price column of a sequence of long-form records
PricesOf(recs) == [i \in 1..Len(recs) |-> recs[i].Price]

\* the keys of a group-by, in sorted order: those of `order` that occur
\* among `keys`
GroupKeys(keys, order) ==
    SelectSeq(order, LAMBDA k : \E i \in 1..Len(keys) : keys[i] = k)

\* reindex(order, fill_value=0): a label that g lacks gets zeros
Reindex_FillZero(g, order, blank) ==
    [k \in 1..Len(order) |->
        IF \E i \in 1..Len(g) : g[i].key = order[k]
        THEN g[CHOOSE i \in 1..Len(g) : g[i].key = order[k]]
        ELSE [f \in {"key"} \cup DOMAIN blank |->
                 IF f = "key" THEN order[k] ELSE <<0>>]]

\* Series.reindex(order): a row per label of `order`, the values of `blank`
\* (all NaN) where g has no such row
Reindex(g, order, blank) ==
    [k \in 1..Len(order) |->
        IF \E i \in 1..Len(g) : g[i].key = order[k]
        THEN g[CHOOSE i \in 1..Len(g) : g[i].key = order[k]]
        ELSE [f \in {"key"} \cup DOMAIN blank |->
                 IF f = "key" THEN order[k] ELSE blank[f]]]

\* ------------------------------------------------------------- long form
zone_cols(d) == SelectSeq(d.columns, LAMBDA c : c # "Date")

\* df.set_index("Date")[zone_cols].stack().reset_index(): one record per
\* row and zone, row by row, and stack() drops the cells that are NaN
Stack(d) ==
    LET zc == zone_cols(d)
        Z == Len(zc)
        all == [k \in 1..(Len(d.rows) * Z) |->
                   LET r == d.rows[((k - 1) \div Z) + 1]
                       z == zc[((k - 1) % Z) + 1]
                   IN  [Date |-> Val(r["Date"]), Zone |-> z, cell |-> r[z]]]
        kept == SelectSeq(all, LAMBDA x : ~IsNaN(x.cell))
    IN  [i \in 1..Len(kept) |->
            [Date |-> kept[i].Date, Zone |-> kept[i].Zone, Price |-> Val(kept[i].cell)]]

\* ----------------------------------------------------------- zone summary
\* groupby("Zone").agg(...): a row per zone of the long form, zones sorted
ZoneAgg(st) ==
    LET keys == GroupKeys([i \in 1..Len(st) |-> st[i].Zone], ZoneNames)
    IN  [i \in 1..Len(keys) |->
            LET v == PricesOf(SelectSeq(st, LAMBDA r : r.Zone = keys[i]))
            IN  [Zone |-> keys[i], Mean |-> SeriesMean(v), Median |-> SeriesMedian(v),
                 Min |-> SeriesMin(v), Max |-> SeriesMax(v),
                 P95 |-> SeriesQuantile(v, 19, 20), Stdev |-> SeriesStd(v)]]

\* rank(method="min"): equal values share the smallest rank
RankFirst_Min(means, i) ==
    1 + Cardinality({j \in 1..Len(means) : RatLess(Val(means[i]), Val(means[j]))})

\* Series.rank(method="first", ascending=False): one more than the number of
\* larger values and of equal values that come earlier
RankFirst(means, i) ==
    1 + Cardinality({j \in 1..Len(means) : RatLess(Val(means[i]), Val(means[j]))})
      + Cardinality({j \in 1..(i - 1) : means[j] = means[i]})

\* .sort_values("Mean", ascending=False): the orders the sort may give
SortByMeanDesc(agg) ==
    {Permute(agg, p) :
        p \in Arrange(1..Len(agg),
                      [i \in 1..Len(agg) |-> [j \in 1..Len(agg) |->
                          RatLess(Val(agg[j].Mean), Val(agg[i].Mean))]])}

WithRank(sorted) ==
    LET means == [i \in 1..Len(sorted) |-> sorted[i].Mean]
    IN  [i \in 1..Len(sorted) |->
            [Zone |-> sorted[i].Zone, Mean |-> sorted[i].Mean,
             Median |-> sorted[i].Median, Min |-> sorted[i].Min,
             Max |-> sorted[i].Max, P95 |-> sorted[i].P95,
             Stdev |-> sorted[i].Stdev, Rank |-> RankFirst(means, i)]]

ZoneSummaries(st) == {WithRank(s) : s \in SortByMeanDesc(ZoneAgg(st))}

\* ---------------------------------------------------------------- extremes
TopK == 20

\* stacked.sort_values("Price", ascending=...).head(20)
Spikes(st) ==
    {HeadK(Permute(st, p), TopK) :
        p \in Arrange(1..Len(st),
                      [i \in 1..Len(st) |-> [j \in 1..Len(st) |->
                          st[i].Price > st[j].Price]])}

Dips(st) ==
    {HeadK(Permute(st, p), TopK) :
        p \in Arrange(1..Len(st),
                      [i \in 1..Len(st) |-> [j \in 1..Len(st) |->
                          st[i].Price < st[j].Price]])}

\* ------------------------------------------------------ across-zone views
\* the cells of row r under the zone columns
RowCells(d, r) == [k \in 1..Len(zone_cols(d)) |-> r[zone_cols(d)[k]]]

\* df.set_index("Date")[zone_cols].mean(axis=1): NaN where every zone is NaN
AvgSeries(d) == [i \in 1..Len(d.rows) |-> SeriesMean(DropNa(RowCells(d, d.rows[i])))]

\* max and min that do not skip NaN: no value as soon as one zone has none
Spread_NoSkip(d) ==
    [i \in 1..Len(d.rows) |->
        LET c == RowCells(d, d.rows[i])
            v == IF \E k \in 1..Len(c) : IsNaN(c[k]) THEN <<>> ELSE DropNa(c)
            mx == SeriesMax(v)
            mn == SeriesMin(v)
        IN  [Date |-> Val(d.rows[i]["Date"]), Max |-> mx, Min |-> mn,
             Spread |-> IF IsNaN(mx) \/ IsNaN(mn) THEN NaN ELSE <<Val(mx) - Val(mn)>>]]

\* wide.max(axis=1), wide.min(axis=1) and their difference, a row per timestamp
Spread(d) ==
    [i \in 1..Len(d.rows) |->
        LET v == DropNa(RowCells(d, d.rows[i]))
            mx == SeriesMax(v)
            mn == SeriesMin(v)
        IN  [Date |-> Val(d.rows[i]["Date"]), Max |-> mx, Min |-> mn,
             Spread |-> IF IsNaN(mx) \/ IsNaN(mn) THEN NaN ELSE <<Val(mx) - Val(mn)>>]]

\* ------------------------------------------------------------- correlation
\* pairs over the rows where a has a value, a missing b counted as 0
PairsOf_FillZero(d, a, b) ==
    LET some == SelectSeq(d.rows, LAMBDA r : ~IsNaN(r[a]))
    IN  [i \in 1..Len(some) |->
            <<Val(some[i][a]), IF IsNaN(some[i][b]) THEN 0 ELSE Val(some[i][b])>>]

\* the (x, y) pairs of the rows where zones a and b both have a value
PairsOf(d, a, b) ==
    LET both == SelectSeq(d.rows, LAMBDA r : ~IsNaN(r[a]) /\ ~IsNaN(r[b]))
    IN  [i \in 1..Len(both) |-> <<Val(both[i][a]), Val(both[i][b])>>]

\* Pearson correlation of the pairs: NaN when either side has no variance
Pearson(ps) ==
    LET n == Len(ps)
        xs == [i \in 1..n |-> ps[i][1]]
        ys == [i \in 1..n |-> ps[i][2]]
        sxy == SumSeq([i \in 1..n |-> ps[i][1] * ps[i][2]])
        c == n * sxy - SumSeq(xs) * SumSeq(ys)
        vx == n * SumSq(xs) - SumSeq(xs) * SumSeq(xs)
        vy == n * SumSq(ys) - SumSeq(ys) * SumSeq(ys)
    IN  IF vx = 0 \/ vy = 0 THEN NaN
        ELSE <<[sgn |-> IF c > 0 THEN 1 ELSE IF c < 0 THEN 0 - 1 ELSE 0,
                sq |-> RatMul(Rat(c, vx), Rat(c, vy))]>>

\* wide.corr(): zone by zone, each pair over its own complete rows
Corr(d) ==
    [a \in Range(zone_cols(d)) |->
        [b \in Range(zone_cols(d)) |-> Pearson(PairsOf(d, a, b))]]

\* ----------------------------------------------------------------- profiles
\* groupby("Hour")["Price"].mean(): a row per hour that occurs, ascending
HourOfDay(st) ==
    LET keys == GroupKeys([i \in 1..Len(st) |-> dt_hour(st[i].Date)], [h \in 1..24 |-> h - 1])
    IN  [i \in 1..Len(keys) |->
            [Hour |-> keys[i],
             Price |-> SeriesMean(PricesOf(SelectSeq(st, LAMBDA r : dt_hour(r.Date) = keys[i])))]]

\* the weekday names in the order a group-by sorts them
DayNamesSorted ==
    <<"Friday", "Monday", "Saturday", "Sunday", "Thursday", "Tuesday", "Wednesday">>

\* groupby("DOW")["Price"].mean(): a row per weekday that occurs
DowGroups(st) ==
    LET keys == GroupKeys([i \in 1..Len(st) |-> day_name(st[i].Date)], DayNamesSorted)
    IN  [i \in 1..Len(keys) |->
            [key |-> keys[i],
             Price |-> SeriesMean(PricesOf(SelectSeq(st, LAMBDA r : day_name(r.Date) = keys[i])))]]

\* the profile left in the order of the group-by, without the reindex
DayOfWeek_GroupOrder(st) == DowGroups(st)

\* ... .reindex([Monday .. Sunday]).reset_index()
DayOfWeek(st) == Reindex(DowGroups(st), DayNames, [Price |-> NaN])

\* ------------------------------------------------------------------ seasons
season_of_month(m) ==
    CASE m \in {12, 1, 2} -> "Winter"
      [] m \in {3, 4, 5} -> "Spring"
      [] m \in {6, 7, 8} -> "Summer"
      [] m \in {9, 10, 11} -> "Autumn"

SeasonOf(r) == season_of_month(dt_month(r.Date))

SeasonNames == <<"Winter", "Spring", "Summer", "Autumn">>

SeasonNamesSorted == <<"Autumn", "Spring", "Summer", "Winter">>

\* the long-form records of a season (one group of groupby("Season"))
SeasonGroup(st, s) == SelectSeq(st, LAMBDA r : SeasonOf(r) = s)

\* groupby("Season")["Price"].agg(["mean", "median", "std", "min", "max"])
SeasonGroups(st) ==
    LET keys == GroupKeys([i \in 1..Len(st) |-> SeasonOf(st[i])], SeasonNamesSorted)
    IN  [i \in 1..Len(keys) |->
            LET v == PricesOf(SeasonGroup(st, keys[i]))
            IN  [key |-> keys[i], mean |-> SeriesMean(v), median |-> SeriesMedian(v),
                 std |-> SeriesStd(v), min |-> SeriesMin(v), max |-> SeriesMax(v)]]

\* ... .reindex([Winter, Spring, Summer, Autumn]).reset_index()
Seasonal(st) ==
    Reindex(SeasonGroups(st), SeasonNames,
            [mean |-> NaN, median |-> NaN, std |-> NaN, min |-> NaN, max |-> NaN])

\* ------------------------------------------------------------ rolling stats
RollWindow == 24 * 30

MinPeriods == 24

\* an expanding window: every value up to position i
WindowVals_Expanding(avg, i) == DropNa(SubSeq(avg, 1, i))

\* the values of the window of RollWindow positions that ends at position i
WindowVals(avg, i) == DropNa(SubSeq(avg, Max2(1, i - RollWindow + 1), i))

\* min_periods taken as a number of positions instead of present values
RollingMean_ByPosition(avg, i) ==
    LET v == WindowVals(avg, i)
    IN  IF i < MinPeriods \/ v = <<>> THEN NaN
        ELSE <<RatMul(RatSumRange(v, 1, Len(v)), Rat(1, Len(v)))>>

\* .rolling(24 * 30, min_periods=24).mean(): NaN below min_periods values
RollingMean(avg, i) ==
    LET v == WindowVals(avg, i)
    IN  IF Len(v) < MinPeriods THEN NaN
        ELSE <<RatMul(RatSumRange(v, 1, Len(v)), Rat(1, Len(v)))>>

\* .rolling(24 * 30, min_periods=24).std(): sample convention, carried squared
RollingStd(avg, i) ==
    LET v == WindowVals(avg, i)
        n == Len(v)
        sm == RatSumRange(v, 1, n)
        sq == RatSumRange([k \in 1..n |-> RatMul(v[k], v[k])], 1, n)
    IN  IF n < MinPeriods \/ n < 2 THEN NaN
        ELSE <<RatMul(RatAdd(RatMul(Rat(n, 1), sq), RatMul(Rat(0 - 1, 1), RatMul(sm, sm))),
                      Rat(1, n * (n - 1)))>>

Rolling(d) ==
    LET avg == AvgSeries(d) \o <<>>
    IN  [i \in 1..Len(avg) |->
            [Date |-> Val(d.rows[i]["Date"]), Avg |-> avg[i],
             RollMean30d |-> RollingMean(avg, i), RollVol30d |-> RollingStd(avg, i)]]

\* ------------------------------------------------------- monthly averages
\* groupby(["Zone", "Year", "Month"])["Price"].mean(): the groups that occur
Monthly(st) ==
    LET keys == {<<st[i].Zone, dt_year(st[i].Date), dt_month(st[i].Date)>> : i \in 1..Len(st)}
    IN  {[Zone |-> k[1], Year |-> k[2], Month |-> k[3],
          Price |-> SeriesMean(PricesOf(SelectSeq(st, LAMBDA r :
                       <<r.Zone, dt_year(r.Date), dt_month(r.Date)>> = k)))] : k \in keys}

\* --------------------------------------------------------- build_dashboard
CsvFiles ==
    <<"zone_year_month_avg_prices.csv", "top20_price_spikes.csv", "top20_price_dips.csv",
      "seasonal_summary.csv", "zone_correlation.csv", "hour_of_day_profile.csv",
      "day_of_week_profile.csv", "interzonal_spread_timeseries.csv">>

\* the --output path, at its default
OutputHtml == "PJM_Unified_Dashboard.html"

\* the --assets-dir path, at its default
AssetsDir == "assets"

\* A path is the sequence of its components, <<>> being the directory the
\* program runs in.  parse_args with no --output and no --assets-dir:
DefaultArgs == [output |-> <<OutputHtml>>, assets_dir |-> <<AssetsDir>>]

\* Path.parent
Parent(path) == SubSeq(path, 1, Len(path) - 1)

\* assets_dir / "<name>.csv" for each CSV, in the order they are written
CsvPaths(a) == [i \in 1..Len(CsvFiles) |-> a.assets_dir \o <<CsvFiles[i]>>]

\* the href of the CSV links of the document, in document order: each is
\* the .name of a CSV path, that is, the file name without its directory
CsvLinks ==
    <<<<CsvFiles[2]>>, <<CsvFiles[3]>>, <<CsvFiles[1]>>, <<CsvFiles[4]>>,
      <<CsvFiles[5]>>, <<CsvFiles[6]>>, <<CsvFiles[7]>>, <<CsvFiles[8]>>>>

\* sorted(monthly["Year"].unique())
years_sorted(mo) ==
    LET ys == {m.Year : m \in mo}
    IN  CHOOSE q \in [1..Cardinality(ys) -> ys] :
            \A i, j \in 1..Cardinality(ys) : i < j => q[i] < q[j]

\* The whole of build_dashboard.  The tables are computed and the eight
\* CSV files written (lines 57-260); then default_year = years_sorted[-1]
\* (line 337) raises IndexError when no cell of the table holds a price,
\* and the document is not written; otherwise the document is written last.
BuildDashboard ==
    /\ pc = "loaded"
    /\ LET st == Stack(df)
       IN  /\ stacked' = st
           /\ monthly' = Monthly(st)
           /\ zone_summary' \in ZoneSummaries(st)
           /\ hod' = HourOfDay(st)
           /\ dow' = DayOfWeek(st)
           /\ seasonal' = Seasonal(st)
           /\ idxmax' \in Spikes(st)
           /\ idxmin' \in Dips(st)
    /\ roll' = Rolling(df)
    /\ spread' = Spread(df)
    /\ corr' = Corr(df)
    /\ assets_dir' = TRUE
    /\ IF years_sorted(monthly') = <<>>
       THEN /\ written' = CsvPaths(args)
            /\ links' = <<>>
            /\ error' = "IndexError"
            /\ pc' = "crashed"
       ELSE /\ written' = CsvPaths(args) \o <<args.output>>
            /\ links' = CsvLinks
            /\ pc' = "done"
            /\ UNCHANGED error
    /\ UNCHANGED <<sheet, args, df>>

\* ------------------------------------------------------------ specification
Init ==
    /\ sheet \in Sheets
    /\ args = DefaultArgs
    /\ pc = "start"
    /\ df = <<>>
    /\ error = "none"
    /\ assets_dir = FALSE
    /\ written = <<>>
    /\ links = <<>>
    /\ stacked = <<>>
    /\ monthly = {}
    /\ zone_summary = <<>>
    /\ roll = <<>>
    /\ spread = <<>>
    /\ hod = <<>>
    /\ dow = <<>>
    /\ seasonal = <<>>
    /\ corr = <<>>
    /\ idxmax = <<>>
    /\ idxmin = <<>>

Next == LoadData \/ BuildDashboard

Spec == Init /\ [][Next]_vars

\* ------------------------------------------- the views of the wide table
\* The statistics build_dashboard takes from the wide table alone (rolling
\* mean and volatility, spread, correlation), applied to taller tables than
\* the whole pipeline is run on above.

\* two zones over the first n timestamps, every cell free
WideSheets ==
    {[columns |-> <<"Date">> \o zs,
      rows |-> [i \in 1..Len(cs) |->
                  [c \in {"Date"} \cup Range(zs) |->
                      IF c = "Date" THEN <<Times[i]>> ELSE cs[i][c]]]] :
        <<zs, cs>> \in UNION {ZoneOrders(2) \X [1..n -> [{ZoneNames[1], ZoneNames[2]} -> Cells]] :
                                 n \in 1..MaxWideRows}}

\* one zone over n consecutive hours, NaN at the hours of `gaps`
HourlySheet(n, gaps) ==
    [columns |-> <<"Date", ZoneNames[1]>>,
     rows |-> [i \in 1..n |->
                 [c \in {"Date", ZoneNames[1]} |->
                     IF c = "Date" THEN <<i - 1>>
                     ELSE IF i \in gaps THEN NaN ELSE <<(i * i) % (MaxPrice + 2)>>]]]

\* the sets of at most k of the hours 1..n
RECURSIVE GapSets(_, _)
GapSets(n, k) ==
    IF k = 0 THEN {{}}
    ELSE {g \cup {a} : g \in GapSets(n, k - 1), a \in 1..n} \cup {{}}

\* short series with any gaps, and series longer than the window
HourlySheets ==
    {HourlySheet(x[1], x[2]) : x \in UNION {{n} \X GapSets(n, MaxGaps) : n \in 1..MaxRollRows}}
    \cup {HourlySheet(RollWindow + 2, g) :
             g \in {{}, {2, RollWindow}, (MinPeriods + 1)..(RollWindow + 2)}}

InitWide ==
    /\ sheet \in WideSheets \cup HourlySheets
    /\ args = DefaultArgs
    /\ pc = "start"
    /\ df = <<>>
    /\ error = "none"
    /\ assets_dir = FALSE
    /\ written = <<>>
    /\ links = <<>>
    /\ stacked = <<>>
    /\ monthly = {}
    /\ zone_summary = <<>>
    /\ roll = <<>>
    /\ spread = <<>>
    /\ hod = <<>>
    /\ dow = <<>>
    /\ seasonal = <<>>
    /\ corr = <<>>
    /\ idxmax = <<>>
    /\ idxmin = <<>>

WideViews ==
    /\ pc = "loaded"
    /\ roll' = Rolling(df)
    /\ spread' = Spread(df)
    /\ corr' = Corr(df)
    /\ pc' = "viewed"
    /\ UNCHANGED <<sheet, args, df, error, assets_dir, written, links, stacked, monthly,
                   zone_summary, hod, dow, seasonal, idxmax, idxmin>>

NextWide == LoadData \/ WideViews

SpecWide == InitWide /\ [][NextWide]_vars

\* ------------------------------------------------- runs with their options
MaxRunCells == 2

\* the sheets of at most MaxRunCells cells
RunSheets ==
    {sh \in Sheets : Len(sh.rows) * Len(zone_cols(sh)) <= MaxRunCells}

\* Command lines: the defaults, --assets-dir . , and both paths under site/.
\* The directory of --output is the working directory or the asset
\* directory, so it exists when the document is written.
ArgChoices ==
    {a \in [output : {<<OutputHtml>>, <<"site", "index.html">>},
            assets_dir : {<<AssetsDir>>, <<>>, <<"site">>}] :
        Parent(a.output) \in {<<>>, a.assets_dir}}

InitRun ==
    /\ sheet \in RunSheets
    /\ args \in ArgChoices
    /\ pc = "start"
    /\ df = <<>>
    /\ error = "none"
    /\ assets_dir = FALSE
    /\ written = <<>>
    /\ links = <<>>
    /\ stacked = <<>>
    /\ monthly = {}
    /\ zone_summary = <<>>
    /\ roll = <<>>
    /\ spread = <<>>
    /\ hod = <<>>
    /\ dow = <<>>
    /\ seasonal = <<>>
    /\ corr = <<>>
    /\ idxmax = <<>>
    /\ idxmin = <<>>

SpecRun == InitRun /\ [][Next]_vars

\* ------------------------------------------------------------------ claims
ZoneCount == Len(zone_cols(df))

RowCount == Len(df.rows)

\* the prices present in row i of df, as a set
PresentIn(i) ==
    {Val(df.rows[i][z]) : z \in {z \in Range(zone_cols(df)) : ~IsNaN(df.rows[i][z])}}

\* C1: a sheet without a "Date" column ends the run in load_data with an
\* error, and nothing of build_dashboard happens: no aggregate is computed,
\* the asset directory is not created and no file is written.
C1_SchemaErrorAborts ==
    ~HasDate(sheet) =>
        /\ pc \in {"start", "failed"}
        /\ pc = "failed" => error = "ValueError"
        /\ assets_dir = FALSE
        /\ written = <<>>
        /\ df = <<>>
        /\ stacked = <<>> /\ monthly = {} /\ zone_summary = <<>>
        /\ roll = <<>> /\ spread = <<>>
        /\ hod = <<>> /\ dow = <<>> /\ seasonal = <<>> /\ corr = <<>>
        /\ idxmax = <<>> /\ idxmin = <<>>

C1_Witness == ~HasDate(sheet) /\ pc = "failed" /\ error = "ValueError"

\* C2: the long form has exactly rows x zones records, and every
\* (timestamp, zone) pair of the table occurs in it exactly once, missing
\* prices included.
C2_LongFormHasEveryCell ==
    pc \in {"done", "crashed"} =>
        /\ Len(stacked) = RowCount * ZoneCount
        /\ \A i \in 1..RowCount : \A z \in Range(zone_cols(df)) :
              Cardinality({k \in 1..Len(stacked) :
                              /\ stacked[k].Date = Val(df.rows[i]["Date"])
                              /\ stacked[k].Zone = z}) = 1

\* C3: with Z zones the ranks of the zone summary are a permutation of
\* 1..Z, rank 1 has the maximal mean, and a strictly higher mean has a
\* strictly smaller rank.
C3_RanksPermuteZones ==
    pc = "done" =>
        /\ Len(zone_summary) = ZoneCount
        /\ {zone_summary[i].Rank : i \in 1..Len(zone_summary)} = 1..ZoneCount
        /\ \A i, j \in 1..Len(zone_summary) :
              /\ RatLess(Val(zone_summary[j].Mean), Val(zone_summary[i].Mean))
                    => zone_summary[i].Rank < zone_summary[j].Rank
              /\ zone_summary[i].Rank = 1
                    => ~RatLess(Val(zone_summary[i].Mean), Val(zone_summary[j].Mean))

StableExtremes(tab, dir) ==
    /\ Len(tab) = Min2(20, Len(stacked))
    /\ \A a \in 1..Len(tab) : tab[a] \in Range(stacked)
    /\ \A a, b \in 1..Len(tab) :
          a < b => /\ dir * tab[a].Price >= dir * tab[b].Price
                   /\ tab[a].Price = tab[b].Price
                         => IndexOf(stacked, tab[a]) < IndexOf(stacked, tab[b])
    /\ \A k \in 1..Len(stacked) :
          stacked[k] \notin Range(tab)
              => \A a \in 1..Len(tab) :
                    /\ dir * tab[a].Price >= dir * stacked[k].Price
                    /\ tab[a].Price = stacked[k].Price => IndexOf(stacked, tab[a]) < k

\* C5: spikes are the first 20 records by descending price, dips the first
\* 20 by ascending price, and records of equal price come in their
\* long-form order.
C5_ExtremesKeepRecordOrder ==
    pc = "done" =>
        /\ StableExtremes(idxmax, 1)
        /\ StableExtremes(idxmin, 0 - 1)

\* C7: each row of the spread series takes max and min over the prices
\* present at that timestamp: none present gives no value, one present
\* gives spread 0, and a spread is never negative.
C7_SpreadSkipsMissing ==
    pc = "done" =>
        /\ Len(spread) = RowCount
        /\ \A i \in 1..Len(spread) :
              /\ spread[i].Date = Val(df.rows[i]["Date"])
              /\ IF PresentIn(i) = {}
                 THEN spread[i].Max = NaN /\ spread[i].Min = NaN /\ spread[i].Spread = NaN
                 ELSE /\ ~IsNaN(spread[i].Max)
                      /\ ~IsNaN(spread[i].Min)
                      /\ ~IsNaN(spread[i].Spread)
                      /\ Val(spread[i].Max) \in PresentIn(i)
                      /\ Val(spread[i].Min) \in PresentIn(i)
                      /\ \A p \in PresentIn(i) :
                            Val(spread[i].Min) <= p /\ p <= Val(spread[i].Max)
                      /\ Val(spread[i].Spread) = Val(spread[i].Max) - Val(spread[i].Min)
                      /\ Val(spread[i].Spread) >= 0
                      /\ Cardinality({z \in Range(zone_cols(df)) : ~IsNaN(df.rows[i][z])}) = 1
                            => spread[i].Spread = <<0>>

\* a row where one zone has a price and another has none, and a row with a
\* positive spread
C7_Witness ==
    /\ pc = "done"
    /\ \E i \in 1..Len(spread) :
          /\ Cardinality({z \in Range(zone_cols(df)) : ~IsNaN(df.rows[i][z])}) = 1
          /\ \E z \in Range(zone_cols(df)) : IsNaN(df.rows[i][z])
          /\ spread[i].Spread = <<0>>
    /\ \E i \in 1..Len(spread) : spread[i].Spread # NaN /\ Val(spread[i].Spread) > 0

\* the long-form records of season s, as a set of positions
SeasonPositions(s) ==
    {k \in 1..Len(stacked) : season_of_month(dt_month(stacked[k].Date)) = s}

\* C8: the season mapping is total and single-valued on the months 1..12,
\* every long-form record is in exactly one season group, and the sizes of
\* the four groups sum to rows x zones.
C8_SeasonGroupsCoverTable ==
    /\ \A m \in 1..12 : season_of_month(m) \in Range(SeasonNames)
    /\ {m \in 1..12 : season_of_month(m) = "Winter"} = {12, 1, 2}
    /\ {m \in 1..12 : season_of_month(m) = "Spring"} = {3, 4, 5}
    /\ {m \in 1..12 : season_of_month(m) = "Summer"} = {6, 7, 8}
    /\ {m \in 1..12 : season_of_month(m) = "Autumn"} = {9, 10, 11}
    /\ pc \in {"done", "crashed"} =>
          /\ \A k \in 1..Len(stacked) :
                Cardinality({s \in Range(SeasonNames) : k \in SeasonPositions(s)}) = 1
          /\ SumSeq([n \in 1..Len(SeasonNames) |->
                        Len(SeasonGroup(stacked, SeasonNames[n]))]) = RowCount * ZoneCount

\* the long-form records that fall on weekday name d, as a set of positions
DowPositions(d) == {k \in 1..Len(stacked) : day_name(stacked[k].Date) = d}

\* C9: the day-of-week profile has the seven weekdays in the order Monday
\* to Sunday, each with the mean price of all long-form records of that
\* weekday (no value where there is none).
C9_DowOrderAndMeans ==
    pc = "done" =>
        /\ Len(dow) = 7
        /\ \A k \in 1..7 :
              /\ dow[k].key = DayNames[k]
              /\ dow[k].Price =
                    IF DowPositions(DayNames[k]) = {} THEN NaN
                    ELSE <<Rat(SumSeq([i \in 1..Len(stacked) |->
                                          IF i \in DowPositions(DayNames[k])
                                          THEN stacked[i].Price ELSE 0]),
                               Cardinality(DowPositions(DayNames[k])))>>

\* records on a Monday and on a Friday, which a sorted group-by gives in the
\* order Friday, Monday, with different means
C9_Witness ==
    /\ pc = "done"
    /\ dow[1].Price # NaN
    /\ dow[5].Price # NaN
    /\ dow[1].Price # dow[5].Price
    /\ Cardinality(DowPositions("Friday")) > 1

\* the sum, over the positions of the window of 720 that ends at position i
\* whose average is present, of that average (a whole number) to the power
\* e = 0, 1 or 2
ObservedSum(i, e) ==
    SumRange([j \in 1..Len(roll) |->
                 IF roll[j].Avg = NaN THEN 0
                 ELSE IF e = 0 THEN 1
                 ELSE IF e = 1 THEN Val(roll[j].Avg).num
                 ELSE Val(roll[j].Avg).num * Val(roll[j].Avg).num],
             Max2(1, i - 719), i)

\* C6 (as amended): the rolling mean and deviation at a position have a
\* value exactly when the trailing window of at most 720 positions ending
\* there holds at least 24 present averages, and then they are the mean and
\* sample deviation of those; so the first 23 positions never have a value.
C6_RollingNeedsObservations ==
    pc = "viewed" =>
        /\ Len(roll) = RowCount
        /\ \A i \in 1..Len(roll) :
              LET n == ObservedSum(i, 0)
                  s1 == ObservedSum(i, 1)
                  s2 == ObservedSum(i, 2)
              IN  /\ i <= 23 => roll[i].RollMean30d = NaN /\ roll[i].RollVol30d = NaN
                  /\ n < 24 => roll[i].RollMean30d = NaN /\ roll[i].RollVol30d = NaN
                  /\ n >= 24 => roll[i].RollMean30d # NaN /\ roll[i].RollVol30d # NaN
                  /\ (n >= 24 /\ ZoneCount = 1) =>
                        /\ roll[i].RollMean30d = <<Rat(s1, n)>>
                        /\ roll[i].RollVol30d = <<Rat(n * s2 - s1 * s1, n * (n - 1))>>

\* C6 (as claimed): no value at positions 0..22 and a value at every
\* position from 23 on, whatever averages are missing.
C6_DefinedFromMinPeriods ==
    pc = "viewed" =>
        \A i \in 1..Len(roll) :
            IF i <= 23
            THEN roll[i].RollMean30d = NaN /\ roll[i].RollVol30d = NaN
            ELSE roll[i].RollMean30d # NaN /\ roll[i].RollVol30d # NaN

\* a series longer than the window with a missing average: a position past
\* 23 without a value, and a value taken over a window that has dropped
\* the first positions
C6_Witness ==
    /\ pc = "viewed"
    /\ Len(roll) > 720
    /\ \E i \in 24..Len(roll) : roll[i].RollMean30d = NaN
    /\ \E j \in 1..Len(roll) : roll[j].Avg = NaN
    /\ roll[Len(roll)].RollMean30d # NaN
    /\ roll[Len(roll)].RollVol30d # NaN

\* zone a has two different prices among the rows of `rows`
Varies(a, rows) ==
    \E i, j \in rows :
        /\ ~IsNaN(df.rows[i][a]) /\ ~IsNaN(df.rows[j][a])
        /\ df.rows[i][a] # df.rows[j][a]

\* the rows where zones a and b both have a price
CommonRows(a, b) ==
    {i \in 1..RowCount : ~IsNaN(df.rows[i][a]) /\ ~IsNaN(df.rows[i][b])}

\* C10: the correlation matrix is symmetric, an entry has a value exactly
\* when both zones vary over the rows where both have a price, and the
\* diagonal is 1 for a zone that varies and has no value for one that does
\* not.
C10_CorrSymmetricUnitDiagonal ==
    pc = "viewed" =>
        \A a, b \in Range(zone_cols(df)) :
            /\ corr[a][b] = corr[b][a]
            /\ corr[a][b] # NaN <=> (Varies(a, CommonRows(a, b)) /\ Varies(b, CommonRows(a, b)))
            /\ corr[a][a] =
                  IF Varies(a, 1..RowCount)
                  THEN <<[sgn |-> 1, sq |-> [num |-> 1, den |-> 1]]>>
                  ELSE NaN

\* a zone that varies beside one that does not, and a pair whose value
\* rests on fewer rows than the table has
C10_Witness ==
    /\ pc = "viewed"
    /\ \E a, b \in Range(zone_cols(df)) :
          /\ a # b
          /\ corr[a][b] # NaN
          /\ Cardinality(CommonRows(a, b)) < RowCount
    /\ \E a \in Range(zone_cols(df)) : corr[a][a] # NaN

\* the cells of df that hold a price, as (row, zone) pairs
PricedCells ==
    {x \in (1..RowCount) \X Range(zone_cols(df)) : ~IsNaN(df.rows[x[1]][x[2]])}

DateOfRow(i) == Val(df.rows[i]["Date"])

\* those of `cells` that fall in one season, on one weekday, in one zone
SeasonCells(cells, s) ==
    {x \in cells : season_of_month(dt_month(DateOfRow(x[1]))) = s}

DowCells(cells, d) == {x \in cells : day_name(DateOfRow(x[1])) = d}

ZoneCells(cells, z) == {x \in cells : x[2] = z}

\* C11: a group without records is never reported with a made-up zero.  The
\* seasonal table has a row for each of the four seasons; a season without a
\* price has no value for mean, median, std, min and max, a season with
\* prices has a mean, median, min and max, and its std has a value exactly
\* when it has two prices or more.  A weekday without a price has no value.
\* The hour-of-day profile, the monthly table and the zone summary list only
\* the groups that have a price, each with a mean, and a zone with a single
\* price has no standard deviation.  (cells: the priced cells; tagged: each
\* with its season; n: the number of priced cells of season k.)
C11_EmptyGroupsHaveNoValue ==
    pc = "done" =>
        \A cells \in {PricedCells} :
            /\ Len(seasonal) = Len(SeasonNames)
            /\ \A tagged \in {{<<season_of_month(dt_month(DateOfRow(x[1]))), x>> : x \in cells}} :
               \A k \in 1..Len(seasonal) :
                  \A n \in {Cardinality({t \in tagged : t[1] = SeasonNames[k]})} :
                      /\ seasonal[k].key = SeasonNames[k]
                      /\ IsNaN(seasonal[k].mean) <=> n = 0
                      /\ IsNaN(seasonal[k].median) <=> n = 0
                      /\ IsNaN(seasonal[k].min) <=> n = 0
                      /\ IsNaN(seasonal[k].max) <=> n = 0
                      /\ IsNaN(seasonal[k].std) <=> n < 2
            /\ Len(dow) = Len(DayNames)
            /\ \A k \in 1..Len(dow) :
                  IsNaN(dow[k].Price) <=> DowCells(cells, DayNames[k]) = {}
            /\ {hod[i].Hour : i \in 1..Len(hod)}
                  = {dt_hour(DateOfRow(x[1])) : x \in cells}
            /\ \A i \in 1..Len(hod) : ~IsNaN(hod[i].Price)
            /\ {<<m.Zone, m.Year, m.Month>> : m \in monthly}
                  = {<<x[2], dt_year(DateOfRow(x[1])), dt_month(DateOfRow(x[1]))>> :
                        x \in cells}
            /\ \A m \in monthly : ~IsNaN(m.Price)
            /\ {zone_summary[i].Zone : i \in 1..Len(zone_summary)}
                  = {x[2] : x \in cells}
            /\ \A i \in 1..Len(zone_summary) :
                  /\ ~IsNaN(zone_summary[i].Mean)
                  /\ IsNaN(zone_summary[i].Stdev)
                        <=> Cardinality(ZoneCells(cells, zone_summary[i].Zone)) < 2

\* a table with a season that has no price, a season with a single price
\* and a season whose two equal prices give a standard deviation of zero
C11_Witness ==
    /\ pc = "done"
    /\ \E a, b, c \in Range(SeasonNames) :
          /\ SeasonCells(PricedCells, a) = {}
          /\ Cardinality(SeasonCells(PricedCells, b)) = 1
          /\ Cardinality(SeasonCells(PricedCells, c)) >= 2
          /\ \E k \in 1..Len(seasonal) :
                seasonal[k].key = c /\ seasonal[k].std = <<Rat(0, 1)>>
    /\ \E d \in Range(DayNames) : DowCells(PricedCells, d) = {}

\* the file a link of the document leads to: the href, taken relative to
\* the directory of the document
LinkTarget(href) == Parent(args.output) \o href

\* C12: a run on a sheet with a "Date" column ends having written exactly
\* the eight CSV files, each in the asset directory, and then the HTML
\* document at the output path, last; and every CSV link of the document
\* leads to one of the CSV files written.
C12_OutputsWrittenAndLinked ==
    (HasDate(sheet) /\ pc \notin {"start", "loaded"}) =>
        /\ pc = "done"
        /\ Len(written) = 9
        /\ {written[i] : i \in 1..8}
              = {args.assets_dir \o <<n>> :
                    n \in {"zone_year_month_avg_prices.csv", "top20_price_spikes.csv",
                           "top20_price_dips.csv", "seasonal_summary.csv",
                           "zone_correlation.csv", "hour_of_day_profile.csv",
                           "day_of_week_profile.csv", "interzonal_spread_timeseries.csv"}}
        /\ written[9] = args.output
        /\ Len(links) = 8
        /\ \A k \in 1..Len(links) :
              \E i \in 1..8 : written[i] = LinkTarget(links[k])

====
